---- MODULE Spec2Model ----
(***************************************************************************)
(* The GPX analysis front end (Home page, FileUpload, ProgressTracker,     *)
(* the warning filter of AnalysisResults, MapView) together with the       *)
(* asynchronous analysis job it polls.                                     *)
(*                                                                         *)
(* The page components are translated from the TypeScript sources.  The    *)
(* job engine behind the HTTP endpoints is not part of the sources; its    *)
(* state machine is written from sections 3, 4.5 and 4.6 of the            *)
(* specification.                                                          *)
(*                                                                         *)
(* React is modelled at the granularity of one event handler or one        *)
(* promise continuation per step: the state updates of a handler, the      *)
(* render they cause and the effect cleanup / re-run of that render are    *)
(* one action.                                                             *)
(*                                                                         *)
(* Spec is the page with its submissions, tracker and job engine.  The     *)
(* threshold field (SpecUpload), the warning checkboxes (SpecResults) and  *)
(* MapView (SpecMap, under any parent) have specifications of their own.   *)
(***************************************************************************)
EXTENDS Integers, Sequences, FiniteSets, TLC

\* ------------------------------------------------------------------ bounds
MaxSubmits == 2       \* handleFileAnalysis calls in one behaviour
MaxProgress == 2      \* progress points of a job; MaxProgress stands for 100 %
MaxInflight == 2      \* status requests in flight at the same time
MaxLen == 2           \* length of the text typed into the threshold field
MaxMounts == 2        \* MapView instances mounted in one behaviour
MaxPending == 2       \* MapView callbacks waiting for import('leaflet')

\* --------------------------------------------------------------- constants
NoId == 0             \* analysisId === null, analysisResult === null
NoError == "null"     \* error === null
NoSnap == "pending"   \* a status request the server has not answered yet
UnknownErrorText == "Erreur inconnue"

JobIds == 1..MaxSubmits

\* ------------------------------------------------------------------- state
VARIABLES
    analysisResult,   \* Home: NoId, or j for the result of job j
    isLoading,        \* Home
    error,            \* Home: NoError or a message
    analysisId,       \* Home: NoId, or the tracked job
    enabledWarningTypes, \* Home: the warning types ticked in the filter
    slopeThreshold,   \* FileUpload, in units of 1/Scale percent
    progressData,     \* ProgressTracker: the displayed snapshot
    intervalOn,       \* ProgressTracker: the current effect's timer is armed
    polls,            \* status requests in flight, in the order sent
    posts,            \* submission requests in flight (submission numbers)
    nSubmits,         \* handleFileAnalysis calls so far
    jobs,             \* the job engine: job id -> JobState
    lastCall,         \* history: the last onComplete / onError invocation
    delivered,        \* history: onComplete + onError invocations per job
    lastSubmit,       \* history: the last onFileAnalysis call
    statusFailed,     \* history: the last settled status request failed
    leafletLoaded,    \* MapView: the module of import('leaflet') has loaded
    mapMounted,       \* MapView: the mounted instance, NoMapView if none
    nMounts,          \* MapView: instances mounted so far
    mapProps,         \* MapView: the props of the mounted instance
    mapRef,           \* MapView: per instance, the container of mapRef.current
    mapQueue,         \* MapView: callbacks waiting for import('leaflet')
    markers           \* MapView: the markers on the map of the mounted <div>

vars == <<analysisResult, isLoading, error, analysisId, enabledWarningTypes,
          slopeThreshold,
          progressData, intervalOn, polls, posts, nSubmits, jobs,
          lastCall, delivered, lastSubmit, statusFailed,
          leafletLoaded, mapMounted, nMounts, mapProps, mapRef, mapQueue,
          markers>>

homeVars == <<analysisResult, isLoading, error, analysisId, enabledWarningTypes>>
trackerVars == <<progressData, intervalOn, polls>>
histVars == <<lastCall, delivered, lastSubmit, statusFailed>>
pageVars == <<homeVars, slopeThreshold, trackerVars, posts, nSubmits, jobs,
              histVars>>
mapVars == <<leafletLoaded, mapMounted, nMounts, mapProps, mapRef, mapQueue,
             markers>>

\* ---------------------------------------------------------------- numbers
RECURSIVE Pow10(_)
Pow10(n) == IF n = 0 THEN 1 ELSE 10 * Pow10(n - 1)

\* Thresholds are fixed-point numbers with MaxLen fractional digits.
Scale == Pow10(MaxLen)

InitialSlopeThreshold == 10 * Scale

\* ------------------------------------------------------------- FileUpload
\* The characters a typed threshold is made of, and the texts of at most
\* MaxLen characters.
Chars == {"-", ".", "0", "5", "x"}
Digits == {"0", "5"}
Texts == UNION {[1..n -> Chars] : n \in 0..MaxLen}

DigitValue(c) == IF c = "5" THEN 5 ELSE 0

\* The longest prefix of s made of digits.
RECURSIVE DigitPrefix(_)
DigitPrefix(s) ==
    IF s = <<>> \/ Head(s) \notin Digits THEN <<>>
    ELSE <<Head(s)>> \o DigitPrefix(Tail(s))

\* The integer a digit string denotes.
RECURSIVE DigitsValue(_)
DigitsValue(d) ==
    IF d = <<>> THEN 0
    ELSE 10 * DigitsValue(SubSeq(d, 1, Len(d) - 1)) + DigitValue(d[Len(d)])

NaN == [nan |-> TRUE, val |-> 0]

\* parseFloat: an optional sign, then the longest prefix of the form
\* digits [. digits] or . digits; NaN when that prefix holds no digit.  The
\* value is returned in units of 1/Scale.
ParseFloat(s) ==
    LET neg == s # <<>> /\ Head(s) = "-"
        body == IF neg THEN Tail(s) ELSE s
        int == DigitPrefix(body)
        rest == SubSeq(body, Len(int) + 1, Len(body))
        frac == IF rest # <<>> /\ Head(rest) = "." THEN DigitPrefix(Tail(rest))
                ELSE <<>>
        mag == DigitsValue(int) * Scale
               + DigitsValue(frac) * Pow10(MaxLen - Len(frac))
    IN  IF int = <<>> /\ frac = <<>> THEN NaN
        ELSE [nan |-> FALSE, val |-> IF neg THEN 0 - mag ELSE mag]

\* The test without its second half: !isNaN(value).
AcceptThresholdNoSignTest(v) == ~v.nan

\* handleSlopeThresholdChange's test: !isNaN(value) && value > 0.
AcceptThreshold(v) == ~v.nan /\ v.val > 0

\* File names, as character sequences.
GpxSuffix == <<".", "g", "p", "x">>
FileNames == {<<"a", ".", "g", "p", "x">>, <<"a", ".", "t", "x", "t">>}
NoFile == <<>>

\* String.prototype.endsWith
EndsWith(name, suffix) ==
    /\ Len(name) >= Len(suffix)
    /\ SubSeq(name, Len(name) - Len(suffix) + 1, Len(name)) = suffix

\* ------------------------------------------------------------- job engine
\* A JobState snapshot.  result is NoId when absent and the job's id when
\* present; error is "" when absent.
NoJob == [status |-> "none", progress |-> 0, result |-> NoId, error |-> ""]
NoSnapshot == [status |-> NoSnap, progress |-> 0, result |-> NoId, error |-> ""]
InsufficientData == "InsufficientData"
JobErrors == {InsufficientData}

Terminal(st) == st \in {"completed", "error"}

\* submit: the registry creates the JobState in Starting.
SubmitJob(j) == [status |-> "starting", progress |-> 0, result |-> NoId, error |-> ""]

\* A worker that publishes Completed straight from Starting.
StartJobSkipsProcessing(js) == [js EXCEPT !.status = "completed"]

\* Starting -> Processing, once the point sequence is available.
StartJob(js) == [js EXCEPT !.status = "processing"]

\* One more batch of points classified.
AdvanceJob(js) == [js EXCEPT !.progress = js.progress + 1]

\* A worker that publishes the Completed status before the result.
CompleteJobTorn(j, js) == [js EXCEPT !.status = "completed", !.progress = MaxProgress]

\* Processing -> Completed: the result is swapped in with the status.
CompleteJob(j, js) ==
    [js EXCEPT !.status = "completed", !.progress = MaxProgress, !.result = j]

\* Processing -> Error: the cause is published, progress freezes.
FailJob(js, cause) == [js EXCEPT !.status = "error", !.error = cause]

\* getStatus: the latest published snapshot.
GetStatus(j) == jobs[j]

\* --------------------------------------------------------- ProgressTracker
\* useState's initial progressData.
InitialProgressData ==
    [status |-> "starting", progress |-> 0, result |-> NoId, error |-> ""]

\* A status request: the job it asks for, whether the cleanup of the effect
\* that sent it has run (stale), whether the component that sent it is
\* unmounted (gone), and the server's answer.
NewPoll(id) == [id |-> id, stale |-> FALSE, gone |-> FALSE, snap |-> NoSnapshot]

\* A callback without the completed branch.
IsCompletedNever(data) == FALSE

\* data.status === 'completed' && data.result
IsCompleted(data) == data.status = "completed" /\ data.result # NoId

\* data.status === 'error' (reached when IsCompleted is false)
IsError(data) == data.status = "error"

\* onError(data.error), without the fallback.
OnErrorArgNoFallback(data) == data.error

\* data.error || 'Erreur inconnue'
OnErrorArg(data) == IF data.error # "" THEN data.error ELSE UnknownErrorText

\* The cleanup of the effect: requests already sent belong to a dead effect.
MarkStale(ps) == [i \in DOMAIN ps |-> [ps[i] EXCEPT !.stale = TRUE]]

\* The unmount of the component: its effect is cleaned up and its state is
\* gone.
MarkGone(ps) == [i \in DOMAIN ps |-> [ps[i] EXCEPT !.stale = TRUE, !.gone = TRUE]]

\* The requests in flight once request i has settled.
Settle(ps, i) == SubSeq(ps, 1, i - 1) \o SubSeq(ps, i + 1, Len(ps))

\* The render of Home after a handler moved analysisId to newId, as seen by
\* the conditionally rendered ProgressTracker.  rendered says that Home's
\* state changed: handleAnalysisComplete and handleAnalysisError are new
\* functions on every render of Home, so the effect is cleaned up and run
\* again.  ps, pd and io are the tracker's requests, progressData and timer
\* as the handler left them.
Render(newId, rendered, ps, pd, io) ==
    IF newId = NoId
    THEN /\ intervalOn' = FALSE
         /\ polls' = MarkGone(ps)
         /\ progressData' = InitialProgressData
    ELSE IF analysisId = NoId
    THEN /\ intervalOn' = TRUE
         /\ polls' = ps
         /\ progressData' = InitialProgressData
    ELSE IF rendered
    THEN /\ intervalOn' = TRUE
         /\ polls' = MarkStale(ps)
         /\ progressData' = pd
    ELSE /\ intervalOn' = io
         /\ polls' = ps
         /\ progressData' = pd

\* ----------------------------------------------------------------- results
\* A warning is a text, kept as its pieces around each ':'.
Colon == ":"
SteepSlope == <<"steep_slope", Colon, "45.0">>
SurfaceGravel == <<"surface", Colon, "gravel">>
SurfaceTrack == <<"surface", Colon, "track", Colon, "grade3">>

\* warning.split(':')[0]: the text before the first ':', the whole text when
\* there is none.
WarningType(warning) ==
    LET colons == {i \in DOMAIN warning : warning[i] = Colon}
    IN  IF colons = {}
        THEN warning
        ELSE SubSeq(warning, 1, (CHOOSE i \in colons : \A k \in colons : i <= k) - 1)

\* The payloads of the results the page is shown: result j stands for the
\* AnalysisResult of job j.
ProblematicSegments(result) ==
    IF result % 2 = 1
    THEN <<[point_index |-> 1, warnings |-> <<SteepSlope, SurfaceGravel>>],
           [point_index |-> 2, warnings |-> <<SurfaceTrack>>]>>
    ELSE <<[point_index |-> 1, warnings |-> <<SteepSlope>>]>>

\* Object.keys(result.summary.warning_types)
WarningTypeKeys(result) ==
    IF result % 2 = 1
    THEN {<<"steep_slope">>, <<"surface">>}
    ELSE {<<"steep_slope">>}

\* ----------------------------------------------------------------- MapView
NoMapView == 0        \* no MapView is mounted: no <div id="map"> in the document
NoMap == 0            \* mapRef.current === null
NoProps == [segments |-> <<>>, enabledWarningTypes |-> {}]
MapInstances == 1..MaxMounts

\* The props Home passes: the segments of a result and a set of its types.
MapPropsSet ==
    [segments : {ProblematicSegments(j) : j \in JobIds},
     enabledWarningTypes : SUBSET UNION {WarningTypeKeys(j) : j \in JobIds}]

\* segment.warnings.filter(warning =>
\*     enabledWarningTypes.has(warning.split(':')[0]))
FilteredWarnings(segment, enabled) ==
    LET Has(warning) == WarningType(warning) \in enabled
    IN  SelectSeq(segment.warnings, Has)

\* filteredWarnings.join(', ')
RECURSIVE Join(_)
Join(texts) ==
    IF texts = <<>> THEN <<>>
    ELSE IF Len(texts) = 1 THEN Head(texts)
    ELSE Head(texts) \o <<", ">> \o Join(Tail(texts))

PopupText(filtered) == <<"Problèmes: ">> \o Join(filtered)

\* segments.forEach: a marker at each segment that keeps a warning.
RECURSIVE AddMarkers(_, _)
AddMarkers(segments, enabled) ==
    IF segments = <<>> THEN <<>>
    ELSE LET filtered == FilteredWarnings(Head(segments), enabled)
             rest == AddMarkers(Tail(segments), enabled)
         IN  IF Len(filtered) > 0
             THEN <<[at |-> Head(segments).point_index,
                     popup |-> PopupText(filtered)]>> \o rest
             ELSE rest

\* L.map('map') has already been called on this container.
InitialisedOn(ref, container) == \E i \in MapInstances : ref[i] = container

\* The callback of import('leaflet').then for an effect of instance inst,
\* run while the <div id="map"> of instance container is in the document.
\* m holds every instance's mapRef and the markers of the map on that
\* <div>.  L.map('map') throws when there is no such <div> or when a map
\* is already initialised on it, and the callback ends there; a map on a
\* <div> that has left the document is updated out of sight.
MapCallback(m, inst, props, container) ==
    LET canInit == container # NoMapView /\ ~InitialisedOn(m.ref, container)
        ref == IF m.ref[inst] = NoMap /\ canInit
               THEN [m.ref EXCEPT ![inst] = container]
               ELSE m.ref
    IN  IF ref[inst] = NoMap
        THEN m
        ELSE [ref |-> ref,
              markers |-> IF ref[inst] = container
                          THEN AddMarkers(props.segments, props.enabledWarningTypes)
                          ELSE m.markers]

\* The callbacks waiting for the module run in the order of their effects.
RECURSIVE Drain(_, _, _)
Drain(m, queue, container) ==
    IF queue = <<>> THEN m
    ELSE Drain(MapCallback(m, Head(queue).inst, Head(queue).props, container),
               Tail(queue), container)

\* MapView's effect for instance inst: import('leaflet').then(callback).
\* Once the module has loaded the callback runs before any other event.
MapEffect(inst, props, ref, shown) ==
    IF leafletLoaded
    THEN LET m == MapCallback([ref |-> ref, markers |-> shown], inst, props, inst)
         IN  /\ mapRef' = m.ref
             /\ markers' = m.markers
             /\ mapQueue' = mapQueue
    ELSE /\ Len(mapQueue) < MaxPending
         /\ mapQueue' = Append(mapQueue, [inst |-> inst, props |-> props])
         /\ mapRef' = ref
         /\ markers' = shown

\* -------------------------------------------------------------------- Home
HttpErrorText == "Erreur HTTP: 500"
NetworkErrorText == "Failed to fetch"
SubmitErrors == {HttpErrorText, NetworkErrorText}

NoCall == [kind |-> "none", arg |-> "", stale |-> FALSE, data |-> NoSnapshot]
NoSubmit == [file |-> NoFile, threshold |-> 0, loading |-> FALSE]

\* handleFileAnalysis, up to the await of the POST: the page state is reset
\* and the request is in flight.
HandleFileAnalysis(file, threshold) ==
    /\ nSubmits < MaxSubmits
    /\ isLoading' = TRUE
    /\ error' = NoError
    /\ analysisResult' = NoId
    /\ analysisId' = NoId
    /\ enabledWarningTypes' = {}
    /\ nSubmits' = nSubmits + 1
    /\ posts' = posts \cup {nSubmits + 1}
    /\ lastSubmit' = [file |-> file, threshold |-> threshold, loading |-> isLoading]
    /\ Render(NoId, TRUE, polls, progressData, intervalOn)
    /\ UNCHANGED <<slopeThreshold, jobs, lastCall, delivered, statusFailed,
                       mapVars>>

\* handleAnalysisComplete(result), called by a tracker's request i.
HandleAnalysisComplete(result, ps, pd, io) ==
    /\ analysisResult' = result
    /\ isLoading' = FALSE
    /\ analysisId' = NoId
    /\ error' = error
    /\ enabledWarningTypes' = WarningTypeKeys(result)
    /\ Render(NoId, TRUE, ps, pd, io)

\* A toggle that builds the new set from scratch instead of from a copy.
ToggleDropsOthers(prev, warningType, isEnabled) ==
    IF isEnabled THEN {warningType} ELSE prev \ {warningType}

\* The updater of handleWarningTypeToggle: a copy of prev with warningType
\* added or deleted.
Toggle(prev, warningType, isEnabled) ==
    IF isEnabled THEN prev \cup {warningType} ELSE prev \ {warningType}

\* handleAnalysisError(error)
HandleAnalysisError(message, ps, pd, io) ==
    /\ error' = message
    /\ isLoading' = FALSE
    /\ analysisId' = NoId
    /\ analysisResult' = analysisResult
    /\ enabledWarningTypes' = enabledWarningTypes
    /\ Render(NoId, TRUE, ps, pd, io)

\* ----------------------------------------------------------------- actions
\* FileUpload.handleSlopeThresholdChange; the field is disabled while loading.
ChangeThreshold ==
    \E text \in Texts :
        /\ ~isLoading
        /\ slopeThreshold' = IF AcceptThreshold(ParseFloat(text))
                             THEN ParseFloat(text).val ELSE slopeThreshold
        /\ UNCHANGED <<homeVars, trackerVars, posts, nSubmits, jobs, histVars,
                       mapVars>>

\* FileUpload.handleChange; the file input is disabled while loading.
HandleChange ==
    \E file \in FileNames \cup {NoFile} :
        /\ ~isLoading
        /\ IF file # NoFile
           THEN HandleFileAnalysis(file, slopeThreshold)
           ELSE UNCHANGED vars

\* FileUpload.handleDrop; the drop zone takes drops in every state.
HandleDrop ==
    \E file \in FileNames \cup {NoFile} :
        IF file # NoFile /\ EndsWith(file, GpxSuffix)
        THEN HandleFileAnalysis(file, slopeThreshold)
        ELSE UNCHANGED vars

\* The server's submit creates the job of submission s and answers with its
\* identifier; handleFileAnalysis after the await, response.ok:
\* setAnalysisId.
SubmitOk ==
    \E s \in posts :
        /\ jobs' = [jobs EXCEPT ![s] = SubmitJob(s)]
        /\ posts' = posts \ {s}
        /\ analysisId' = s
        /\ Render(s, TRUE, polls, progressData, intervalOn)
        /\ UNCHANGED <<analysisResult, isLoading, error, enabledWarningTypes,
                       slopeThreshold, nSubmits, histVars,
                       mapVars>>

\* handleFileAnalysis after the await, the catch branch: the request failed
\* or the response was not OK.
SubmitFail ==
    \E s \in posts, message \in SubmitErrors :
        /\ posts' = posts \ {s}
        /\ error' = message
        /\ isLoading' = FALSE
        /\ Render(analysisId, error # message \/ isLoading,
                  polls, progressData, intervalOn)
        /\ UNCHANGED <<analysisResult, analysisId, enabledWarningTypes,
                       slopeThreshold, nSubmits, jobs, histVars,
                       mapVars>>

\* A checkbox of AnalysisResults changes: handleCheckboxChange(type) calls
\* handleWarningTypeToggle(type, e.target.checked).  One checkbox is shown
\* per key of the result's warning_types, checked iff its type is enabled.
\* Home renders again, so a mounted tracker's effect is run again.
HandleWarningTypeToggle ==
    \E warningType \in WarningTypeKeys(analysisResult) :
        /\ analysisResult # NoId
        /\ enabledWarningTypes' =
               Toggle(enabledWarningTypes, warningType,
                      warningType \notin enabledWarningTypes)
        /\ Render(analysisId, TRUE, polls, progressData, intervalOn)
        /\ UNCHANGED <<analysisResult, isLoading, error, analysisId,
                       slopeThreshold, posts, nSubmits, jobs, histVars,
                       mapVars>>

\* Home renders MapView for a result: a new instance with a new <div>.
MountMapView ==
    \E props \in MapPropsSet :
        /\ mapMounted = NoMapView
        /\ nMounts < MaxMounts
        /\ nMounts' = nMounts + 1
        /\ mapMounted' = nMounts + 1
        /\ mapProps' = props
        /\ MapEffect(nMounts + 1, props, mapRef, <<>>)
        /\ UNCHANGED <<leafletLoaded, pageVars>>

\* Home renders the mounted MapView with other props: the effect's
\* dependencies [segments, enabledWarningTypes] changed.
UpdateMapView ==
    \E props \in MapPropsSet :
        /\ mapMounted # NoMapView
        /\ props # mapProps
        /\ mapProps' = props
        /\ MapEffect(mapMounted, props, mapRef, markers)
        /\ UNCHANGED <<leafletLoaded, mapMounted, nMounts, pageVars>>

\* Home stops rendering MapView (analysisResult is null): the <div> leaves
\* the document.  The effect has no cleanup.
UnmountMapView ==
    /\ mapMounted # NoMapView
    /\ mapMounted' = NoMapView
    /\ mapProps' = NoProps
    /\ markers' = <<>>
    /\ UNCHANGED <<leafletLoaded, nMounts, mapRef, mapQueue, pageVars>>

\* The module requested by the first import('leaflet') arrives and the
\* waiting callbacks run.
LeafletLoaded ==
    /\ ~leafletLoaded
    /\ mapQueue # <<>>
    /\ leafletLoaded' = TRUE
    /\ LET m == Drain([ref |-> mapRef, markers |-> markers], mapQueue, mapMounted)
       IN  /\ mapRef' = m.ref
           /\ markers' = m.markers
    /\ mapQueue' = <<>>
    /\ UNCHANGED <<mapMounted, nMounts, mapProps, pageVars>>

\* setInterval's callback up to the await of fetch: a status request for the
\* effect's analysisId leaves.
Tick ==
    /\ analysisId # NoId
    /\ intervalOn
    /\ Len(polls) < MaxInflight
    /\ polls' = Append(polls, NewPoll(analysisId))
    /\ UNCHANGED <<homeVars, slopeThreshold, progressData, intervalOn, posts,
                   nSubmits, jobs, histVars,
                       mapVars>>

\* The server answers a status request with the job's current snapshot.
ServePoll ==
    \E i \in DOMAIN polls :
        /\ polls[i].snap.status = NoSnap
        /\ polls' = [polls EXCEPT ![i].snap = GetStatus(polls[i].id)]
        /\ UNCHANGED <<homeVars, slopeThreshold, progressData, intervalOn, posts,
                       nSubmits, jobs, histVars,
                       mapVars>>

\* A catch branch that gives up polling after a failed request.
FailPollStopsTimer ==
    \E i \in DOMAIN polls :
        /\ polls' = Settle(polls, i)
        /\ statusFailed' = TRUE
        /\ intervalOn' = FALSE
        /\ UNCHANGED <<homeVars, slopeThreshold, progressData, posts,
                       nSubmits, jobs, lastCall, delivered, lastSubmit,
                       mapVars>>

\* The callback's catch branch: fetch rejected or the response was not OK.
\* It only logs to the console.
FailPoll ==
    \E i \in DOMAIN polls :
        /\ polls' = Settle(polls, i)
        /\ statusFailed' = TRUE
        /\ UNCHANGED <<homeVars, slopeThreshold, progressData, intervalOn, posts,
                       nSubmits, jobs, lastCall, delivered, lastSubmit,
                       mapVars>>

\* The callback after the awaits of request i: setProgressData, then the
\* terminal branches.
DeliverPoll ==
    \E i \in DOMAIN polls :
        LET p == polls[i]
            data == p.snap
            ps == Settle(polls, i)
            pd == IF p.gone THEN progressData ELSE data
            io == IF p.stale THEN intervalOn ELSE FALSE
        IN  /\ data.status # NoSnap
            /\ IF IsCompleted(data)
               THEN /\ HandleAnalysisComplete(data.result, ps, pd, io)
                    /\ lastCall' = [kind |-> "onComplete", arg |-> "",
                                    stale |-> p.stale, data |-> data]
                    /\ delivered' = [delivered EXCEPT ![p.id] = @ + 1]
               ELSE IF IsError(data)
               THEN /\ HandleAnalysisError(OnErrorArg(data), ps, pd, io)
                    /\ lastCall' = [kind |-> "onError", arg |-> OnErrorArg(data),
                                    stale |-> p.stale, data |-> data]
                    /\ delivered' = [delivered EXCEPT ![p.id] = @ + 1]
               ELSE /\ progressData' = pd
                    /\ polls' = ps
                    /\ UNCHANGED <<homeVars, intervalOn, lastCall, delivered>>
            /\ statusFailed' = FALSE
            /\ UNCHANGED <<slopeThreshold, posts, nSubmits, jobs, lastSubmit,
                       mapVars>>

\* The job engine's background worker.
JobStart ==
    \E j \in JobIds :
        /\ jobs[j].status = "starting"
        /\ jobs' = [jobs EXCEPT ![j] = StartJob(jobs[j])]
        /\ UNCHANGED <<homeVars, slopeThreshold, trackerVars, posts, nSubmits, histVars,
                       mapVars>>

JobAdvance ==
    \E j \in JobIds :
        /\ jobs[j].status = "processing"
        /\ jobs[j].progress < MaxProgress
        /\ jobs' = [jobs EXCEPT ![j] = AdvanceJob(jobs[j])]
        /\ UNCHANGED <<homeVars, slopeThreshold, trackerVars, posts, nSubmits, histVars,
                       mapVars>>

JobComplete ==
    \E j \in JobIds :
        /\ jobs[j].status = "processing"
        /\ jobs[j].progress = MaxProgress
        /\ jobs' = [jobs EXCEPT ![j] = CompleteJob(j, jobs[j])]
        /\ UNCHANGED <<homeVars, slopeThreshold, trackerVars, posts, nSubmits, histVars,
                       mapVars>>

JobFail ==
    \E j \in JobIds, cause \in JobErrors :
        /\ jobs[j].status = "processing"
        /\ jobs' = [jobs EXCEPT ![j] = FailJob(jobs[j], cause)]
        /\ UNCHANGED <<homeVars, slopeThreshold, trackerVars, posts, nSubmits, histVars,
                       mapVars>>

\* ----------------------------------------------------------- specification
Init ==
    /\ analysisResult = NoId
    /\ isLoading = FALSE
    /\ error = NoError
    /\ analysisId = NoId
    /\ enabledWarningTypes = {}
    /\ slopeThreshold = InitialSlopeThreshold
    /\ progressData = InitialProgressData
    /\ intervalOn = FALSE
    /\ polls = <<>>
    /\ posts = {}
    /\ nSubmits = 0
    /\ jobs = [j \in JobIds |-> NoJob]
    /\ lastCall = NoCall
    /\ delivered = [j \in JobIds |-> 0]
    /\ lastSubmit = NoSubmit
    /\ statusFailed = FALSE
    /\ leafletLoaded = FALSE
    /\ mapMounted = NoMapView
    /\ nMounts = 0
    /\ mapProps = NoProps
    /\ mapRef = [i \in MapInstances |-> NoMap]
    /\ mapQueue = <<>>
    /\ markers = <<>>

\* The page with the threshold field, the warning checkboxes and the map
\* left alone: submissions, their responses, the tracker's timer and status
\* requests, and the job engine.
Next ==
    \/ HandleChange
    \/ HandleDrop
    \/ SubmitOk
    \/ SubmitFail
    \/ Tick
    \/ ServePoll
    \/ FailPoll
    \/ DeliverPoll
    \/ JobStart
    \/ JobAdvance
    \/ JobComplete
    \/ JobFail

Spec == Init /\ [][Next]_vars

\* The timer fires while it is armed, every request is answered in the end
\* and answered successfully infinitely often, and the job's worker runs.
\* The user's actions carry no fairness.
Fairness ==
    /\ WF_vars(Tick)
    /\ SF_vars(ServePoll)
    /\ SF_vars(DeliverPoll)
    /\ WF_vars(SubmitOk \/ SubmitFail)
    /\ WF_vars(JobStart)
    /\ WF_vars(JobAdvance)
    /\ WF_vars(JobComplete \/ JobFail)

FairSpec == Init /\ [][Next]_vars /\ Fairness

\* FileUpload with the part of Home that feeds its props: the threshold
\* field, the two ways to hand in a file, and the submission's response.
NextUpload ==
    \/ ChangeThreshold
    \/ HandleChange
    \/ HandleDrop
    \/ SubmitOk
    \/ SubmitFail

SpecUpload == Init /\ [][NextUpload]_vars

\* The poll callback on every shape of answer a server could send: one
\* status request of a mounted tracker, answered with any snapshot.
AnyStatus == {"starting", "processing", "completed", "error", "unknown"}
AnySnapshot ==
    [status : AnyStatus, progress : 0..MaxProgress,
     result : {NoId, 1}, error : {"", InsufficientData}]

InitPoll ==
    /\ analysisResult = NoId
    /\ isLoading = TRUE
    /\ error = NoError
    /\ analysisId = 1
    /\ enabledWarningTypes = {}
    /\ slopeThreshold = InitialSlopeThreshold
    /\ progressData = InitialProgressData
    /\ intervalOn = TRUE
    /\ \E data \in AnySnapshot, stale \in BOOLEAN :
           polls = <<[NewPoll(1) EXCEPT !.snap = data, !.stale = stale]>>
    /\ posts = {}
    /\ nSubmits = 1
    /\ jobs = [j \in JobIds |-> IF j = 1 THEN SubmitJob(1) ELSE NoJob]
    /\ lastCall = NoCall
    /\ delivered = [j \in JobIds |-> 0]
    /\ lastSubmit = [file |-> <<"a", ".", "g", "p", "x">>,
                     threshold |-> InitialSlopeThreshold, loading |-> FALSE]
    /\ statusFailed = FALSE
    /\ leafletLoaded = FALSE
    /\ mapMounted = NoMapView
    /\ nMounts = 0
    /\ mapProps = NoProps
    /\ mapRef = [i \in MapInstances |-> NoMap]
    /\ mapQueue = <<>>
    /\ markers = <<>>

SpecPoll == InitPoll /\ [][DeliverPoll]_vars

\* The page with its warning filter: Next and the checkboxes of the result.
NextResults == Next \/ HandleWarningTypeToggle

SpecResults == Init /\ [][NextResults]_vars

\* MapView under a parent that mounts it, changes its props and unmounts
\* it, while the Leaflet module loads.
NextMap ==
    \/ MountMapView
    \/ UpdateMapView
    \/ UnmountMapView
    \/ LeafletLoaded

SpecMap == Init /\ [][NextMap]_vars

\* ------------------------------------------------------------------ claims
Tracked(j) == analysisId = j /\ \A i \in DOMAIN polls : polls[i].id = j

\* C1: for one tracked analysis the tracker delivers the outcome once: the
\* number of onComplete plus onError invocations for it is at most one.
C1_OutcomeDeliveredOnce == \A j \in JobIds : delivered[j] <= 1

\* C2: while one analysis is tracked and every request in flight is for it,
\* the displayed progress never decreases and no non-terminal snapshot is
\* displayed after a terminal one.
C2_SnapshotsAppliedInOrder ==
    [][\A j \in JobIds :
          (Tracked(j) /\ analysisId' = j) =>
              /\ progressData'.progress >= progressData.progress
              /\ Terminal(progressData.status) => Terminal(progressData'.status)]_vars

\* C3: Home never holds an error and an analysis result together.
C3_ErrorExcludesResult == ~(error # NoError /\ analysisResult # NoId)

TrackingEnded ==
    /\ ~intervalOn
    /\ ~isLoading
    /\ analysisId = NoId
    /\ (analysisResult # NoId \/ error # NoError)

\* C4: once the tracked job is terminal, and status requests succeed in the
\* end, the tracking ends: the timer is stopped and Home has left the
\* loading state with analysisId null and a result or an error set.
C4_TrackingEnds ==
    \A j \in JobIds :
        (analysisId = j /\ Terminal(jobs[j].status)) ~> TrackingEnded

\* C4 witness: a live request brought the terminal snapshot and the
\* tracking ended.
C4_Witness ==
    /\ lastCall.kind # "none"
    /\ ~lastCall.stale
    /\ TrackingEnded

\* C5: onError is invoked only for a snapshot whose status is 'error', and
\* its argument is never empty: the snapshot's error when that is not empty,
\* the fallback text otherwise.  Home's error is that argument.
C5_OnErrorArgument ==
    lastCall.kind = "onError" =>
        /\ lastCall.data.status = "error"
        /\ lastCall.arg # ""
        /\ lastCall.data.error # "" => lastCall.arg = lastCall.data.error
        /\ lastCall.data.error = "" => lastCall.arg = UnknownErrorText
        /\ error = lastCall.arg

\* C5 witness: onError was invoked for an error snapshot without a cause.
C5_Witness ==
    /\ lastCall.kind = "onError"
    /\ lastCall.data.error = ""
    /\ error = UnknownErrorText

\* C6: the threshold FileUpload holds is strictly positive, and so is the
\* threshold of every onFileAnalysis call.
C6_ThresholdPositive ==
    /\ slopeThreshold > 0
    /\ lastSubmit # NoSubmit => lastSubmit.threshold > 0

\* C6 witness: a file was handed in with a threshold typed by the user.
C6_Witness ==
    /\ lastSubmit # NoSubmit
    /\ lastSubmit.threshold # InitialSlopeThreshold
    /\ lastSubmit.threshold = slopeThreshold

\* The status transitions of section 4.5.
JobTransitions ==
    {<<"none", "starting">>, <<"starting", "processing">>,
     <<"processing", "completed">>, <<"processing", "error">>}

\* C7: every job's published status moves Starting -> Processing ->
\* Completed or Error, one step at a time, and never leaves a terminal
\* status; every answer to a status request carries one of these statuses.
C7_StatusSequence ==
    [][/\ \A j \in JobIds :
              jobs'[j].status # jobs[j].status =>
                  <<jobs[j].status, jobs'[j].status>> \in JobTransitions
       /\ \A i \in DOMAIN polls' :
              polls'[i].snap.status \in
                  {NoSnap, "starting", "processing", "completed", "error"}]_vars

\* C7 witness: one job went all the way to Completed and a poller was
\* answered with that status, another ended in Error.
C7_Witness ==
    /\ \E i \in DOMAIN polls : polls[i].snap.status = "completed"
    /\ \E j \in JobIds : jobs[j].status = "error"

HasResult(snap) == snap.result # NoId

\* C8: in every published snapshot and in every answer to a status request
\* the result is present exactly when the status is Completed.
C8_ResultIffCompleted ==
    /\ \A j \in JobIds : HasResult(jobs[j]) <=> jobs[j].status = "completed"
    /\ \A i \in DOMAIN polls :
           HasResult(polls[i].snap) <=> polls[i].snap.status = "completed"
    /\ HasResult(progressData) <=> progressData.status = "completed"

\* C8 witness: a status request was answered with a Completed snapshot.
C8_Witness ==
    \E i \in DOMAIN polls :
        /\ polls[i].snap.status = "completed"
        /\ HasResult(polls[i].snap)

\* C9: once an effect's cleanup has run, none of its status requests, those
\* still in flight included, invokes onComplete or onError.
C9_NoCallbackAfterCleanup ==
    lastCall.kind # "none" => ~lastCall.stale

\* C10: onFileAnalysis is never invoked while Home is loading, so at most
\* one submission is in flight and at most one analysis is in progress.
C10_NoSubmitWhileLoading ==
    /\ lastSubmit # NoSubmit => ~lastSubmit.loading
    /\ Cardinality(posts) <= 1

\* A tracker callback (onComplete or onError) for job j is invoked in this
\* step.
CallbackFor(j) == delivered'[j] # delivered[j]

\* C11: what Home shows belongs to the most recent submission: a completion
\* or an error of an earlier analysis changes none of analysisResult, error,
\* isLoading and analysisId, and a shown result is the latest job's.
C11_OnlyLatestAnalysisShown ==
    [][/\ \A j \in JobIds :
              (CallbackFor(j) /\ j < nSubmits) => UNCHANGED homeVars
       /\ analysisResult' \in {NoId, nSubmits'}]_vars

\* C12: a tracked analysisId is the identifier returned for the most recent
\* handleFileAnalysis call.
C12_TrackedIdIsLatest == analysisId # NoId => analysisId = nSubmits

\* C13: the progress tracker is mounted only while Home is loading.
C13_TrackedImpliesLoading == analysisId # NoId => isLoading

\* A status request settles in this step and it failed.
StatusFailure == Len(polls') < Len(polls) /\ statusFailed'

\* C14: a failing status request leaves progressData unchanged, invokes
\* neither onComplete nor onError (so Home's state stays as it is) and does
\* not touch the polling timer.
C14_FailedRequestChangesNothing ==
    [][StatusFailure =>
          UNCHANGED <<progressData, lastCall, delivered, homeVars, intervalOn>>]_vars

\* A status request of the mounted tracker has failed and the timer is
\* still armed.
C14_Witness == statusFailed /\ analysisId # NoId /\ intervalOn

\* C15: a failed submission leaves Home with an error message, isLoading
\* false, analysisId null and the previous result cleared.
C15_SubmitFailureOutcome ==
    [][SubmitFail =>
          /\ error' \in SubmitErrors
          /\ ~isLoading'
          /\ analysisId' = NoId
          /\ analysisResult' = NoId]_vars

\* handleAnalysisComplete is invoked in this step.
CompleteStep ==
    \E j \in JobIds : CallbackFor(j) /\ lastCall'.kind = "onComplete"

\* The filter changes in the membership of exactly one type of the shown
\* result, and nothing else of Home's state changes.
ToggledOne ==
    /\ UNCHANGED <<analysisResult, isLoading, error, analysisId>>
    /\ \E t \in WarningTypeKeys(analysisResult) :
           /\ t \in enabledWarningTypes' <=> t \notin enabledWarningTypes
           /\ \A u \in (enabledWarningTypes \cup enabledWarningTypes') \ {t} :
                  u \in enabledWarningTypes' <=> u \in enabledWarningTypes

\* A handleFileAnalysis call starts in this step and empties the filter.
ResetBySubmission == nSubmits' # nSubmits /\ enabledWarningTypes' = {}

\* C16 as stated: right after handleAnalysisComplete(result) the filter is
\* the key set of result.summary.warning_types, and it changes only through
\* handleWarningTypeToggle, one type at a time.
C16_FilterChangesOnlyByToggle ==
    [][/\ CompleteStep => enabledWarningTypes' = WarningTypeKeys(analysisResult')
       /\ enabledWarningTypes' # enabledWarningTypes =>
              CompleteStep \/ ToggledOne]_vars

\* C16 with the reset added: the filter is the result's key set right after
\* handleAnalysisComplete(result), and it changes only through
\* handleWarningTypeToggle (one type at a time), through a
\* handleAnalysisComplete call, or through handleFileAnalysis, which
\* empties it.
C16_FilterChangesByToggleOrReset ==
    [][/\ CompleteStep => enabledWarningTypes' = WarningTypeKeys(analysisResult')
       /\ enabledWarningTypes' # enabledWarningTypes =>
              CompleteStep \/ ToggledOne \/ ResetBySubmission]_vars

\* A result is shown and the user has unticked one of its types.
C16_Witness ==
    /\ analysisResult # NoId
    /\ enabledWarningTypes # WarningTypeKeys(analysisResult)
    /\ enabledWarningTypes # {}

\* The markers are the filter result for props: a segment has a marker iff
\* one of its warnings has an enabled type, the marker's popup lists those
\* warnings in their order, and there is no other marker.
MarkersMatch(shown, props) ==
    LET segments == props.segments
        enabled == props.enabledWarningTypes
        MarkersAt(k) ==
            {i \in DOMAIN shown : shown[i].at = segments[k].point_index}
    IN  /\ \A k \in DOMAIN segments :
               /\ MarkersAt(k) # {} <=>
                      \E n \in DOMAIN segments[k].warnings :
                          WarningType(segments[k].warnings[n]) \in enabled
               /\ Cardinality(MarkersAt(k)) <= 1
               /\ \A i \in MarkersAt(k) :
                      shown[i].popup =
                          PopupText(FilteredWarnings(segments[k], enabled))
        /\ \A i \in DOMAIN shown : \E k \in DOMAIN segments : i \in MarkersAt(k)

\* C17: once the update for the mounted MapView's current props has run,
\* the markers on its map are the filter result for those props.
C17_MarkersMatchProps ==
    (leafletLoaded /\ mapMounted # NoMapView) => MarkersMatch(markers, mapProps)

\* C18: every onFileAnalysis call carries a file whose name ends in '.gpx'.
C18_OnlyGpxAnalysed ==
    lastSubmit # NoSubmit => EndsWith(lastSubmit.file, GpxSuffix)

====
